---- MODULE Spec2Model ----
(***************************************************************************)
(* Identity reconciliation service: the contacts table (Database), the     *)
(* reconciliation algorithm (ContactService.identify) and the consolidated *)
(* view it returns.  Requests are served one after another.                *)
(***************************************************************************)
EXTENDS Integers, Sequences, FiniteSets, TLC

\* ---------------------------------------------------------------- bounds
\* Last second of the database clock (CURRENT_TIMESTAMP has 1 s resolution).
MaxTime == 1

\* The email and phone strings requests may carry (only equality is ever
\* used on them).
Emails == {"e1", "e2"}
Phones == {"p1"}

\* null of a text column (JS `email || null`, `phoneNumber || null`)
NULL == "null"
\* null of linkedId (`data.linkedId || null`); ids start at 1
NULL_ID == 0

VARIABLES
    store,      \* the contacts table: store[i] is the row with id i
    now,        \* the database clock, in seconds
    prev,       \* the table as it was when the last identify call began
    req,        \* the last identify request
    outcome,    \* which branch the last identify call took
    response,   \* what the last identify call returned
    repeated,   \* the last call repeated the request of the call before it
    calls,      \* the identify calls in flight, store call by store call
    base,       \* the table as it was when the calls in flight began
    reply,      \* the last answer of the POST /api/v1/identify endpoint
    listing     \* the last GET /api/v1/contacts request and its answer

vars == <<store, now, prev, req, outcome, response, repeated, calls, base, reply,
          listing>>

\* ------------------------------------------------------- sequence helpers
RECURSIVE SeqToSetOrderings(_)
\* every enumeration of a finite set as a sequence (rows of a SELECT with no ORDER BY)
SeqToSetOrderings(S) ==
    IF S = {} THEN {<<>>}
    ELSE UNION {{<<x>> \o t : t \in SeqToSetOrderings(S \ {x})} : x \in S}

Range(q) == {q[i] : i \in 1..Len(q)}

RECURSIVE Flat(_)
\* Array.prototype.flat() of an array of arrays
Flat(groups) ==
    IF groups = <<>> THEN <<>> ELSE Head(groups) \o Flat(Tail(groups))

RECURSIVE InsertByCreatedAt(_, _)
\* x placed after every element whose createdAt is <= its own
InsertByCreatedAt(x, q) ==
    IF q = <<>> THEN <<x>>
    ELSE IF Head(q).createdAt <= x.createdAt
         THEN <<Head(q)>> \o InsertByCreatedAt(x, Tail(q))
         ELSE <<x>> \o q

RECURSIVE SortByCreatedAtFrom(_, _)
SortByCreatedAtFrom(acc, q) ==
    IF q = <<>> THEN acc
    ELSE SortByCreatedAtFrom(InsertByCreatedAt(Head(q), acc), Tail(q))

\* a variant that leaves the array as it is
Unsorted(q) == q

\* contacts.sort((a, b) => a.createdAt.getTime() - b.createdAt.getTime()):
\* Array.prototype.sort is stable, equal keys keep their input order
SortByCreatedAt(q) == SortByCreatedAtFrom(<<>>, q)

\* a variant that keeps an array where the code builds a Set
KeepEvery(q) == q

RECURSIVE Dedup(_)
\* new Set([...]) iterated in insertion order: first occurrence of each value
Dedup(q) ==
    IF q = <<>> THEN <<>>
    ELSE LET d == Dedup(SubSeq(q, 1, Len(q) - 1))
             x == q[Len(q)]
         IN IF x \in Range(d) THEN d ELSE Append(d, x)

Map(q, F(_)) == [i \in 1..Len(q) |-> F(q[i])]

IsPrimary(c) == c.linkPrecedence = "primary"
IsSecondary(c) == c.linkPrecedence = "secondary"

\* ------------------------------------------------------------- Database
\* The environment of one call: env.tzShift is the host's UTC offset and
\* env.tieDesc the order in which the engine emits rows with equal sort keys.
Envs == [tzShift : {-1, 0, 1}, tieDesc : BOOLEAN]

\* new Date(row.createdAt): the stored text is UTC ("YYYY-MM-DD HH:MM:SS");
\* Date reads text in that form as local time, so every row read back is
\* shifted by the host's UTC offset (the same shift for every row).
\* (updatedAt is written by every INSERT and UPDATE and never read: the
\* column is left out of the rows.)
ParseDate(t, tzShift) == t + tzShift

\* new Date() in createContact's callback: the host clock itself
JsNow == now

\* rows.map(row => ({...row, createdAt: new Date(row.createdAt), ...}))
ToContact(row, env) ==
    [row EXCEPT !.createdAt = ParseDate(@, env.tzShift)]

Live(s) == {i \in 1..Len(s) : s[i].deletedAt = NULL}

\* a variant of the lookup that matches on the email alone when both are given
MatchingIdsEmailFirst(s, email, phoneNumber) ==
    IF email # NULL
    THEN {i \in Live(s) : s[i].email = email}
    ELSE IF phoneNumber # NULL
    THEN {i \in Live(s) : s[i].phoneNumber = phoneNumber}
    ELSE {}

\* SELECT * FROM contacts WHERE deletedAt IS NULL AND (email = ? OR phoneNumber = ?)
\* (the ids of the rows; the statement has no ORDER BY)
MatchingIds(s, email, phoneNumber) ==
    IF email # NULL /\ phoneNumber # NULL
    THEN {i \in Live(s) : s[i].email = email \/ s[i].phoneNumber = phoneNumber}
    ELSE IF email # NULL
    THEN {i \in Live(s) : s[i].email = email}
    ELSE IF phoneNumber # NULL
    THEN {i \in Live(s) : s[i].phoneNumber = phoneNumber}
    ELSE {}

\* every array findContactsByEmailOrPhone may resolve to
FindContactsByEmailOrPhone(s, email, phoneNumber, env) ==
    {Map(o, LAMBDA i : ToContact(s[i], env)) :
        o \in SeqToSetOrderings(MatchingIds(s, email, phoneNumber))}

RECURSIVE ScanOrder(_, _)
\* the order in which the engine emits rows with equal sort keys: SQL leaves
\* it open, an engine fixes it; ascending or descending rowid
ScanOrder(ids, tieDesc) ==
    IF ids = {} THEN <<>>
    ELSE LET x == IF tieDesc
                  THEN CHOOSE i \in ids : \A j \in ids : j <= i
                  ELSE CHOOSE i \in ids : \A j \in ids : i <= j
         IN <<x>> \o ScanOrder(ids \ {x}, tieDesc)

\* ORDER BY createdAt ASC, applied to the rows as the engine scans them
OrderByCreatedAt(rows) == SortByCreatedAtFrom(<<>>, rows)
\* a variant of the query without OR linkedId = ?
FindPrimaryRowOnly(s, primaryId, env) ==
    LET ids == {i \in Live(s) : s[i].id = primaryId}
    IN OrderByCreatedAt(Map(ScanOrder(ids, env.tieDesc), LAMBDA i : ToContact(s[i], env)))

\* SELECT * FROM contacts WHERE deletedAt IS NULL AND (id = ? OR linkedId = ?)
\* ORDER BY createdAt ASC
FindAllLinkedContacts(s, primaryId, env) ==
    LET ids == {i \in Live(s) : s[i].id = primaryId \/ s[i].linkedId = primaryId}
    IN OrderByCreatedAt(Map(ScanOrder(ids, env.tieDesc), LAMBDA i : ToContact(s[i], env)))

\* a variant of the insert that binds no phoneNumber
InsertedRowNoPhone(s, data) ==
    [id |-> Len(s) + 1,
     phoneNumber |-> NULL,
     email |-> data.email,
     linkedId |-> data.linkedId,
     linkPrecedence |-> data.linkPrecedence,
     createdAt |-> now,
     deletedAt |-> NULL]

\* INSERT INTO contacts (...) VALUES (?, ?, ?, ?, CURRENT_TIMESTAMP, CURRENT_TIMESTAMP):
\* the table after the insert (id is AUTOINCREMENT)
InsertedRow(s, data) ==
    [id |-> Len(s) + 1,
     phoneNumber |-> data.phoneNumber,
     email |-> data.email,
     linkedId |-> data.linkedId,
     linkPrecedence |-> data.linkPrecedence,
     createdAt |-> now,
     deletedAt |-> NULL]

\* the object createContact resolves to
CreatedContact(s, data) ==
    [id |-> Len(s) + 1,
     phoneNumber |-> data.phoneNumber,
     email |-> data.email,
     linkedId |-> data.linkedId,
     linkPrecedence |-> data.linkPrecedence,
     createdAt |-> JsNow,
     deletedAt |-> NULL]

CreateContact(s, data) ==
    [store |-> Append(s, InsertedRow(s, data)), contact |-> CreatedContact(s, data)]

\* a variant of the update with no WHERE clause
DemoteEveryRow(s, id, linkedId) ==
    [i \in 1..Len(s) |->
        [s[i] EXCEPT !.linkedId = linkedId, !.linkPrecedence = "secondary"]]

\* UPDATE contacts SET linkedId = ?, linkPrecedence = ?, updatedAt = CURRENT_TIMESTAMP WHERE id = ?
UpdateContactDemote(s, id, linkedId) ==
    [i \in 1..Len(s) |->
        IF s[i].id = id
        THEN [s[i] EXCEPT !.linkedId = linkedId, !.linkPrecedence = "secondary"]
        ELSE s[i]]

\* a variant of the update with no WHERE clause
UpdateEveryRow(s, id, linkedId) ==
    [i \in 1..Len(s) |-> [s[i] EXCEPT !.linkedId = linkedId]]

\* UPDATE contacts SET linkedId = ?, updatedAt = CURRENT_TIMESTAMP WHERE id = ?
UpdateContactRelink(s, id, linkedId) ==
    [i \in 1..Len(s) |->
        IF s[i].id = id
        THEN [s[i] EXCEPT !.linkedId = linkedId]
        ELSE s[i]]

\* -------------------------------------------------------- ContactService
NoContact ==
    [primaryContactId |-> NULL_ID, emails |-> <<>>, phoneNumbers |-> <<>>,
     secondaryContactIds |-> <<>>]

RECURSIVE CollectEmails(_, _)
\* for (const contact of secondaryContacts)
\*   if (contact.email && !emails.includes(contact.email)) emails.push(contact.email)
CollectEmails(emails, secondaryContacts) ==
    IF secondaryContacts = <<>> THEN emails
    ELSE LET c == Head(secondaryContacts)
         IN CollectEmails(
                IF c.email # NULL /\ c.email \notin Range(emails)
                THEN Append(emails, c.email) ELSE emails,
                Tail(secondaryContacts))

\* a variant that reads the phone of the primary only
PrimaryPhoneOnly(phoneNumbers, secondaryContacts) == phoneNumbers

RECURSIVE CollectPhones(_, _)
CollectPhones(phoneNumbers, secondaryContacts) ==
    IF secondaryContacts = <<>> THEN phoneNumbers
    ELSE LET c == Head(secondaryContacts)
         IN CollectPhones(
                IF c.phoneNumber # NULL /\ c.phoneNumber \notin Range(phoneNumbers)
                THEN Append(phoneNumbers, c.phoneNumber) ELSE phoneNumbers,
                Tail(secondaryContacts))

\* contacts.find(c => c.linkPrecedence === 'primary') on the sorted array
FindPrimary(sorted) ==
    sorted[CHOOSE i \in 1..Len(sorted) :
              /\ IsPrimary(sorted[i])
              /\ \A j \in 1..(i - 1) : ~IsPrimary(sorted[j])]

\* buildConsolidatedContact: ok = FALSE when it throws 'No primary contact found'
BuildConsolidatedContact(contacts) ==
    LET sorted == SortByCreatedAt(contacts)
    IN IF \A i \in 1..Len(sorted) : ~IsPrimary(sorted[i])
       THEN [ok |-> FALSE, contact |-> NoContact, sorted |-> sorted]
       ELSE LET primary == FindPrimary(sorted)
                secondaryContacts == SelectSeq(sorted, IsSecondary)
            IN [ok |-> TRUE,
                contact |->
                    [primaryContactId |-> primary.id,
                     emails |-> CollectEmails(
                         IF primary.email # NULL THEN <<primary.email>> ELSE <<>>,
                         secondaryContacts),
                     phoneNumbers |-> CollectPhones(
                         IF primary.phoneNumber # NULL THEN <<primary.phoneNumber>> ELSE <<>>,
                         secondaryContacts),
                     secondaryContactIds |-> Map(secondaryContacts, LAMBDA c : c.id)],
                sorted |-> sorted]

\* a variant that asks for a new email and a new phone
NeedsBothNew(existingContacts, email, phoneNumber) ==
    LET exactMatch == \E i \in 1..Len(existingContacts) :
                          /\ existingContacts[i].email = email
                          /\ existingContacts[i].phoneNumber = phoneNumber
        hasNewEmail == /\ email # NULL
                       /\ ~\E i \in 1..Len(existingContacts) :
                              existingContacts[i].email = email
        hasNewPhone == /\ phoneNumber # NULL
                       /\ ~\E i \in 1..Len(existingContacts) :
                              existingContacts[i].phoneNumber = phoneNumber
    IN IF exactMatch THEN FALSE ELSE hasNewEmail /\ hasNewPhone

\* a variant that asks only that the exact pair be absent
NeedsUnlessExactMatch(existingContacts, email, phoneNumber) ==
    ~\E i \in 1..Len(existingContacts) :
        /\ existingContacts[i].email = email
        /\ existingContacts[i].phoneNumber = phoneNumber

\* needsNewSecondaryContact
NeedsNewSecondaryContact(existingContacts, email, phoneNumber) ==
    LET exactMatch == \E i \in 1..Len(existingContacts) :
                          /\ existingContacts[i].email = email
                          /\ existingContacts[i].phoneNumber = phoneNumber
        hasNewEmail == /\ email # NULL
                       /\ ~\E i \in 1..Len(existingContacts) :
                              existingContacts[i].email = email
        hasNewPhone == /\ phoneNumber # NULL
                       /\ ~\E i \in 1..Len(existingContacts) :
                              existingContacts[i].phoneNumber = phoneNumber
    IN IF exactMatch THEN FALSE ELSE hasNewEmail \/ hasNewPhone

\* what one identify call leaves behind: the table, whether it returned or
\* threw, the view, the array the view was assembled from, the branch taken
Result(s, b, branch) ==
    [store |-> s,
     status |-> IF b.ok THEN "ok" ELSE "error",
     contact |-> b.contact,
     working |-> b.sorted,
     branch |-> branch]

Thrown(s, branch) ==
    [store |-> s, status |-> "error", contact |-> NoContact, working |-> <<>>,
     branch |-> branch]

\* a variant that takes every candidate's own id as a primary id
AllCandidateIds(existingContacts) ==
    Dedup(Map(existingContacts, LAMBDA c : c.id))

\* new Set([...primaryContacts.map(c => c.id), ...primaryIdsFromSecondary])
AllPrimaryIds(existingContacts) ==
    LET primaryContacts == SelectSeq(existingContacts, IsPrimary)
        secondaryContacts == SelectSeq(existingContacts, IsSecondary)
        primaryIdsFromSecondary ==
            SelectSeq(Map(secondaryContacts, LAMBDA c : c.linkedId),
                      LAMBDA id : id # NULL_ID)
    IN Dedup(Map(primaryContacts, LAMBDA c : c.id) \o primaryIdsFromSecondary)

\* a variant that keeps the newest primary
NewestPrimary(primaryContacts) ==
    SortByCreatedAt(primaryContacts)[Len(primaryContacts)]

\* primaryContacts.sort(by createdAt); const oldestPrimary = primaryContacts[0]
OldestPrimary(primaryContacts) == SortByCreatedAt(primaryContacts)[1]

RECURSIVE DemoteAll(_, _, _)
\* for (const primary of primaryContacts) if (primary.id !== oldestPrimary.id) updateContact(...)
DemoteAll(s, primaryContacts, oldestId) ==
    IF primaryContacts = <<>> THEN s
    ELSE DemoteAll(
            IF Head(primaryContacts).id # oldestId
            THEN UpdateContactDemote(s, Head(primaryContacts).id, oldestId) ELSE s,
            Tail(primaryContacts), oldestId)

\* a variant that leaves the secondaries of a demoted primary where they are
RelinkNone(s, secondaryContacts, oldestId) == s

RECURSIVE RelinkAll(_, _, _)
\* for (const secondary of secondaryContacts) if (secondary.linkedId !== oldestPrimary.id) updateContact(...)
RelinkAll(s, secondaryContacts, oldestId) ==
    IF secondaryContacts = <<>> THEN s
    ELSE RelinkAll(
            IF Head(secondaryContacts).linkedId # oldestId
            THEN UpdateContactRelink(s, Head(secondaryContacts).id, oldestId) ELSE s,
            Tail(secondaryContacts), oldestId)

\* mergePrimaryContacts
MergePrimaryContacts(s, primaryIds, email, phoneNumber, env) ==
    LET allContactsGroups == Map(primaryIds, LAMBDA id : FindAllLinkedContacts(s, id, env))
        allContacts == Flat(allContactsGroups)
        primaryContacts == SelectSeq(allContacts, IsPrimary)
    IN IF primaryContacts = <<>>
       THEN \* oldestPrimary is undefined: reading oldestPrimary.id throws
            Thrown(s, "merge")
       ELSE LET oldestPrimary == OldestPrimary(primaryContacts)
                s1 == DemoteAll(s, SortByCreatedAt(primaryContacts), oldestPrimary.id)
                demoted == Map(allContacts,
                               LAMBDA c : IF IsPrimary(c) /\ c.id # oldestPrimary.id
                                          THEN [c EXCEPT !.linkedId = oldestPrimary.id,
                                                         !.linkPrecedence = "secondary"]
                                          ELSE c)
                secondaryContacts == SelectSeq(demoted, IsSecondary)
                s2 == RelinkAll(s1, secondaryContacts, oldestPrimary.id)
                relinked == Map(demoted,
                                LAMBDA c : IF IsSecondary(c)
                                           THEN [c EXCEPT !.linkedId = oldestPrimary.id]
                                           ELSE c)
                needsNewContact == NeedsNewSecondaryContact(relinked, email, phoneNumber)
                created == CreateContact(s2, [email |-> email, phoneNumber |-> phoneNumber,
                                              linkedId |-> oldestPrimary.id,
                                              linkPrecedence |-> "secondary"])
            IN IF needsNewContact
               THEN Result(created.store,
                           BuildConsolidatedContact(Append(relinked, created.contact)),
                           "merge")
               ELSE Result(s2, BuildConsolidatedContact(relinked), "merge")

\* identify, for one array the lookup may have resolved to
IdentifyWith(s, existingContacts, email, phoneNumber, env) ==
    IF Len(existingContacts) = 0
    THEN LET created == CreateContact(s, [email |-> email, phoneNumber |-> phoneNumber,
                                          linkedId |-> NULL_ID, linkPrecedence |-> "primary"])
         IN Result(created.store, BuildConsolidatedContact(<<created.contact>>), "new")
    ELSE LET allPrimaryIds == AllPrimaryIds(existingContacts)
         IN IF Len(allPrimaryIds) = 0
            THEN Thrown(s, "none")
            ELSE IF Len(allPrimaryIds) = 1
            THEN LET primaryId == allPrimaryIds[1]
                     allLinkedContacts == FindAllLinkedContacts(s, primaryId, env)
                     needsNewContact ==
                         NeedsNewSecondaryContact(allLinkedContacts, email, phoneNumber)
                     created == CreateContact(s, [email |-> email,
                                                  phoneNumber |-> phoneNumber,
                                                  linkedId |-> primaryId,
                                                  linkPrecedence |-> "secondary"])
                 IN IF needsNewContact
                    THEN Result(created.store,
                                BuildConsolidatedContact(
                                    Append(allLinkedContacts, created.contact)),
                                "single")
                    ELSE Result(s, BuildConsolidatedContact(allLinkedContacts), "single")
            ELSE MergePrimaryContacts(s, allPrimaryIds, email, phoneNumber, env)

\* every way one identify call on table s can end
IdentifyResults(s, email, phoneNumber, env) ==
    {IdentifyWith(s, existingContacts, email, phoneNumber, env) :
        existingContacts \in FindContactsByEmailOrPhone(s, email, phoneNumber, env)}

\* the requests the controller lets through: at least one field present
Requests ==
    {r \in [email : Emails \cup {NULL}, phoneNumber : Phones \cup {NULL}] :
        r.email # NULL \/ r.phoneNumber # NULL}

\* ------------------------------------------------------ ContactController
\* what req.body may hold for a field: nothing, the empty string, a string
\* the format check refuses, a JSON number, a well-formed string
ABSENT == NULL
EMPTY == ""
BadEmail == "not-an-email"
BadPhone == "12ab"
NumberPhone == "<number>"

Bodies ==
    [email : Emails \cup {ABSENT, EMPTY, BadEmail},
     phoneNumber : Phones \cup {ABSENT, EMPTY, BadPhone, NumberPhone}]

\* JS truthiness of a field (!email, !phoneNumber)
Falsy(x) == x \in {ABSENT, EMPTY}

\* a variant that only looks for fields left out
MissingStrict(body) == body.email = ABSENT /\ body.phoneNumber = ABSENT

\* if (!email && !phoneNumber)
MissingBoth(body) == Falsy(body.email) /\ Falsy(body.phoneNumber)

\* isValidEmail / isValidPhoneNumber: the strings of Emails and Phones are
\* the well-formed ones
IsValidEmail(email) == email \in Emails
IsValidPhoneNumber(phoneNumber) == phoneNumber \in Phones

\* no answer sent yet
NoReply == [status |-> 0, error |-> "none", contact |-> NoContact]

BadRequest(error) == [status |-> 400, error |-> error, contact |-> NoContact]

\* a variant that answers 200 whatever the service did
ReplyAlwaysOk(c) == [status |-> 200, error |-> "none", contact |-> c.contact]

\* res.status(200).json({contact}) after the await, or the catch block
ReplyOf(c) ==
    IF c.status = "ok"
    THEN [status |-> 200, error |-> "none", contact |-> c.contact]
    ELSE [status |-> 500, error |-> "Internal server error", contact |-> NoContact]

\* what the controller does with a body before any await: the answer it
\* sends at once, or the request it hands to ContactService.identify
Validated(body) ==
    IF MissingBoth(body)
    THEN [pass |-> FALSE,
          reply |-> BadRequest("At least one of email or phoneNumber must be provided")]
    ELSE IF ~Falsy(body.email) /\ ~IsValidEmail(body.email)
    THEN [pass |-> FALSE, reply |-> BadRequest("Invalid email format")]
    ELSE IF body.phoneNumber = NumberPhone
    THEN \* phoneRegex.test coerces the number to its digits and passes;
         \* phoneNumber.replace is not a function: TypeError, caught
         [pass |-> FALSE,
          reply |-> [status |-> 500, error |-> "Internal server error",
                     contact |-> NoContact]]
    ELSE IF ~Falsy(body.phoneNumber) /\ ~IsValidPhoneNumber(body.phoneNumber)
    THEN [pass |-> FALSE, reply |-> BadRequest("Invalid phone number format")]
    ELSE [pass |-> TRUE,
          reply |-> NoReply,
          email |-> IF Falsy(body.email) THEN NULL ELSE body.email,
          phoneNumber |-> IF Falsy(body.phoneNumber) THEN NULL ELSE body.phoneNumber]

\* ------------------------------------------------------------ the listing
RECURSIVE InsertByCreatedAtDesc(_, _)
\* x placed after every element whose createdAt is >= its own
InsertByCreatedAtDesc(x, q) ==
    IF q = <<>> THEN <<x>>
    ELSE IF Head(q).createdAt >= x.createdAt
         THEN <<Head(q)>> \o InsertByCreatedAtDesc(x, Tail(q))
         ELSE <<x>> \o q

RECURSIVE OrderByCreatedAtDescFrom(_, _)
OrderByCreatedAtDescFrom(acc, q) ==
    IF q = <<>> THEN acc
    ELSE OrderByCreatedAtDescFrom(InsertByCreatedAtDesc(Head(q), acc), Tail(q))

\* ORDER BY createdAt DESC, applied to the rows as the engine scans them
OrderByCreatedAtDesc(rows) == OrderByCreatedAtDescFrom(<<>>, rows)

\* LIMIT ? OFFSET ? on the ordered rows
LimitOffset(rows, limit, offset) ==
    IF offset >= Len(rows) THEN <<>>
    ELSE SubSeq(rows, offset + 1,
                IF offset + limit < Len(rows) THEN offset + limit ELSE Len(rows))

\* Database.getAllContacts: SELECT COUNT(*) ... WHERE deletedAt IS NULL, then
\* SELECT * ... WHERE deletedAt IS NULL ORDER BY createdAt DESC LIMIT ? OFFSET ?
DbGetAllContacts(s, limit, offset, env) ==
    [total |-> Cardinality(Live(s)),
     contacts |->
         Map(LimitOffset(OrderByCreatedAtDesc(
                             Map(ScanOrder(Live(s), env.tieDesc), LAMBDA i : s[i])),
                         limit, offset),
             LAMBDA row : ToContact(row, env))]

\* a variant that skips the rows of the requested page as well
OffsetOfNextPage(limit, page) == page * limit

\* const offset = (page - 1) * limit
Offset(limit, page) == (page - 1) * limit

\* Math.ceil(total / limit) for total >= 0 and limit >= 1
CeilOfQuotient(total, limit) ==
    IF total % limit = 0 THEN total \div limit ELSE (total \div limit) + 1

NoPagination ==
    [currentPage |-> 0, totalPages |-> 0, totalContacts |-> 0, limit |-> 0,
     hasNext |-> FALSE, hasPrevious |-> FALSE]

\* ContactService.getAllContacts
ServiceGetAllContacts(s, limit, page, env) ==
    LET result == DbGetAllContacts(s, limit, Offset(limit, page), env)
        totalPages == CeilOfQuotient(result.total, limit)
    IN [contacts |-> result.contacts,
        pagination |->
            [currentPage |-> page,
             totalPages |-> totalPages,
             totalContacts |-> result.total,
             limit |-> limit,
             hasNext |-> page < totalPages,
             hasPrevious |-> page > 1]]

\* the default page size and page, and the largest page size
DefaultLimit == 50
DefaultPage == 1
MaxLimit == 100

\* a query parameter: left out, a text parseInt reads no number from, or
\* the decimal text of an integer
AbsentParam == [kind |-> "absent", n |-> 0]
TextParam == [kind |-> "text", n |-> 0]
IntParam(n) == [kind |-> "int", n |-> n]

\* parseInt(req.query.x as string) || default: NaN and 0 are falsy
ParseIntOr(param, default) ==
    IF param.kind = "int" /\ param.n # 0 THEN param.n ELSE default

NoListing ==
    [query |-> [limit |-> AbsentParam, page |-> AbsentParam],
     status |-> 0, error |-> "none", data |-> <<>>, pagination |-> NoPagination]

\* ContactController.getAllContacts on table s
ListingReply(s, query, env) ==
    LET limit == ParseIntOr(query.limit, DefaultLimit)
        page == ParseIntOr(query.page, DefaultPage)
    IN IF limit < 1 \/ limit > MaxLimit
       THEN [query |-> query, status |-> 400,
             error |-> "Limit must be between 1 and 100",
             data |-> <<>>, pagination |-> NoPagination]
       ELSE IF page < 1
       THEN [query |-> query, status |-> 400,
             error |-> "Page must be greater than 0",
             data |-> <<>>, pagination |-> NoPagination]
       ELSE LET result == ServiceGetAllContacts(s, limit, page, env)
            IN [query |-> query, status |-> 200, error |-> "none",
                data |-> result.contacts, pagination |-> result.pagination]

\* ------------------------------------------- identify, store call by store call
\* identify is async: it is suspended at every await of a Database call and
\* other requests run meanwhile.  A call in flight is the request, the host
\* environment, where it is suspended (pc) and its local variables.
Procs == {1, 2}

IdleCall ==
    [pc |-> "idle", email |-> NULL, phoneNumber |-> NULL,
     env |-> [tzShift |-> 0, tieDesc |-> FALSE],
     ids |-> <<>>, groups |-> <<>>, work |-> <<>>, todo |-> <<>>,
     status |-> "none", error |-> "none", contact |-> NoContact]

\* a call about to issue its first store call
StartedCall(email, phoneNumber, env) ==
    [IdleCall EXCEPT !.pc = "find", !.email = email, !.phoneNumber = phoneNumber,
                     !.env = env]

\* a pending createContact / updateContact
CreateOp(email, phoneNumber, linkedId, linkPrecedence) ==
    [op |-> "create", id |-> NULL_ID, email |-> email, phoneNumber |-> phoneNumber,
     linkedId |-> linkedId, linkPrecedence |-> linkPrecedence]

DemoteOp(id, linkedId) ==
    [op |-> "demote", id |-> id, email |-> NULL, phoneNumber |-> NULL,
     linkedId |-> linkedId, linkPrecedence |-> "secondary"]

RelinkOp(id, linkedId) ==
    [op |-> "relink", id |-> id, email |-> NULL, phoneNumber |-> NULL,
     linkedId |-> linkedId, linkPrecedence |-> "secondary"]

\* the call returned the view / threw
Returned(c, b) ==
    [c EXCEPT !.pc = "done", !.todo = <<>>, !.groups = <<>>,
              !.status = IF b.ok THEN "ok" ELSE "error",
              !.error = IF b.ok THEN "none" ELSE "No primary contact found",
              !.contact = b.contact, !.work = b.sorted]

\* the call threw the error named
Threw(c, error) ==
    [c EXCEPT !.pc = "done", !.todo = <<>>, !.groups = <<>>, !.work = <<>>,
              !.status = "error", !.error = error, !.contact = NoContact]

\* the call goes on to its pending store writes, or returns when it has none
Proceed(c, work, todo) ==
    IF todo = <<>>
    THEN Returned(c, BuildConsolidatedContact(work))
    ELSE [c EXCEPT !.pc = "write", !.work = work, !.todo = todo]

\* identify lines 15-51, once findContactsByEmailOrPhone has resolved
AfterFind(c, existingContacts) ==
    IF Len(existingContacts) = 0
    THEN Proceed(c, <<>>, <<CreateOp(c.email, c.phoneNumber, NULL_ID, "primary")>>)
    ELSE LET allPrimaryIds == AllPrimaryIds(existingContacts)
         IN IF Len(allPrimaryIds) = 0 THEN Threw(c, "No primary contacts found")
            ELSE IF Len(allPrimaryIds) = 1
            THEN [c EXCEPT !.pc = "findLinked", !.ids = allPrimaryIds]
            ELSE [c EXCEPT !.pc = "readGroup", !.ids = allPrimaryIds]

\* identify lines 51-65, once findAllLinkedContacts has resolved
AfterFindLinked(c, allLinkedContacts) ==
    IF NeedsNewSecondaryContact(allLinkedContacts, c.email, c.phoneNumber)
    THEN Proceed(c, allLinkedContacts,
                 <<CreateOp(c.email, c.phoneNumber, c.ids[1], "secondary")>>)
    ELSE Proceed(c, allLinkedContacts, <<>>)

\* mergePrimaryContacts lines 97-138, once every group has been read: every
\* decision of the two loops is taken on the contacts in memory, so the
\* store writes to come are known here
AfterReadGroups(c, allContactsGroups) ==
    LET allContacts == Flat(allContactsGroups)
        primaryContacts == SelectSeq(allContacts, IsPrimary)
    IN IF primaryContacts = <<>>
       THEN \* oldestPrimary is undefined: reading oldestPrimary.id throws
            Threw(c, "TypeError")
       ELSE LET oldestPrimary == OldestPrimary(primaryContacts)
                demotes == Map(SelectSeq(SortByCreatedAt(primaryContacts),
                                         LAMBDA x : x.id # oldestPrimary.id),
                               LAMBDA x : DemoteOp(x.id, oldestPrimary.id))
                demoted == Map(allContacts,
                               LAMBDA x : IF IsPrimary(x) /\ x.id # oldestPrimary.id
                                          THEN [x EXCEPT !.linkedId = oldestPrimary.id,
                                                         !.linkPrecedence = "secondary"]
                                          ELSE x)
                relinks == Map(SelectSeq(SelectSeq(demoted, IsSecondary),
                                         LAMBDA x : x.linkedId # oldestPrimary.id),
                               LAMBDA x : RelinkOp(x.id, oldestPrimary.id))
                relinked == Map(demoted,
                                LAMBDA x : IF IsSecondary(x)
                                           THEN [x EXCEPT !.linkedId = oldestPrimary.id]
                                           ELSE x)
                creates == IF NeedsNewSecondaryContact(relinked, c.email, c.phoneNumber)
                           THEN <<CreateOp(c.email, c.phoneNumber, oldestPrimary.id,
                                           "secondary")>>
                           ELSE <<>>
            IN Proceed([c EXCEPT !.groups = allContactsGroups], relinked,
                       demotes \o relinks \o creates)

\* the table after the store write w
Written(s, w) ==
    IF w.op = "create" THEN CreateContact(s, w).store
    ELSE IF w.op = "demote" THEN UpdateContactDemote(s, w.id, w.linkedId)
    ELSE UpdateContactRelink(s, w.id, w.linkedId)

\* the call once its store write w has resolved, s being the table before it
AfterWrite(c, s, w) ==
    Proceed(c,
            IF w.op = "create" THEN Append(c.work, CreateContact(s, w).contact)
            ELSE c.work,
            Tail(c.todo))

\* ------------------------------------------------------------ the system
Init ==
    /\ store = <<>>
    /\ now = 0
    /\ prev = <<>>
    /\ req = [email |-> NULL, phoneNumber |-> NULL]
    /\ outcome = "init"
    /\ response = [status |-> "none", contact |-> NoContact]
    /\ repeated = FALSE
    /\ calls = [p \in Procs |-> IdleCall]
    /\ base = <<>>
    /\ reply = NoReply
    /\ listing = NoListing

\* POST /identify, run to completion before the next request starts: its
\* effect on the table
Identify(email, phoneNumber) ==
    \E env \in Envs : \E r \in IdentifyResults(store, email, phoneNumber, env) :
        /\ store' = r.store
        /\ UNCHANGED <<now, prev, req, outcome, response, repeated, calls, base, reply, listing>>

\* the same call, with what it was asked, what it found and what it
\* returned recorded
IdentifyObserved(email, phoneNumber) ==
    \E env \in Envs : \E r \in IdentifyResults(store, email, phoneNumber, env) :
        /\ store' = r.store
        /\ prev' = store
        /\ req' = [email |-> email, phoneNumber |-> phoneNumber]
        /\ outcome' = r.branch
        /\ response' = [status |-> r.status, contact |-> r.contact]
        /\ repeated' = (outcome # "init" /\ req = [email |-> email, phoneNumber |-> phoneNumber])
        /\ UNCHANGED <<now, calls, base, reply, listing>>

\* the database clock reaches the next second
Tick ==
    /\ now < MaxTime
    /\ now' = now + 1
    /\ UNCHANGED <<store, prev, req, outcome, response, repeated, calls, base, reply, listing>>

Next ==
    \/ \E r \in Requests : IdentifyObserved(r.email, r.phoneNumber)
    \/ Tick

\* the service with every call observed
Spec == Init /\ [][Next]_vars

NextTable ==
    \/ \E r \in Requests : Identify(r.email, r.phoneNumber)
    \/ Tick

\* the service alone: the tables and clock readings it can reach
TableSpec == Init /\ [][NextTable]_vars

\* no identify call is suspended or finished: requests so far ran alone
AllIdle == \A p \in Procs : calls[p].pc = "idle"

AllDone == \A p \in Procs : calls[p].pc = "done"

\* the host that serves two requests together keeps its clock in UTC (the
\* offset moves the createdAt of every contact read back by the same amount
\* and has no say in what is written)
PairEnvs == {env \in Envs : env.tzShift = 0}

\* two requests arrive together on one host: both calls are in flight
StartPair(r1, r2, env) ==
    /\ AllIdle
    /\ calls' = [p \in Procs |->
                    IF p = 1 THEN StartedCall(r1.email, r1.phoneNumber, env)
                    ELSE StartedCall(r2.email, r2.phoneNumber, env)]
    /\ base' = store
    /\ UNCHANGED <<store, now, prev, req, outcome, response, repeated, reply, listing>>

\* one request arrives while none is in flight
Start(p, r, env) ==
    /\ \A q \in Procs : calls[q].pc \in {"idle", "done"}
    /\ calls' = [q \in Procs |->
                    IF q = p THEN StartedCall(r.email, r.phoneNumber, env) ELSE IdleCall]
    /\ base' = store
    /\ UNCHANGED <<store, now, prev, req, outcome, response, repeated, reply, listing>>

\* await this.db.findContactsByEmailOrPhone(email, phoneNumber) resolves
FindStep(p) ==
    /\ calls[p].pc = "find"
    /\ \E existingContacts \in FindContactsByEmailOrPhone(
                                   store, calls[p].email, calls[p].phoneNumber, calls[p].env) :
          calls' = [calls EXCEPT ![p] = AfterFind(@, existingContacts)]
    /\ UNCHANGED <<store, now, prev, req, outcome, response, repeated, base, reply, listing>>

\* await this.db.findAllLinkedContacts(primaryId) resolves
FindLinkedStep(p) ==
    /\ calls[p].pc = "findLinked"
    /\ calls' = [calls EXCEPT ![p] =
                    AfterFindLinked(@, FindAllLinkedContacts(store, @.ids[1], @.env))]
    /\ UNCHANGED <<store, now, prev, req, outcome, response, repeated, base, reply, listing>>

\* the next findAllLinkedContacts of Promise.all(primaryIds.map(...)) resolves
ReadGroupStep(p) ==
    /\ calls[p].pc = "readGroup"
    /\ LET c == calls[p]
           groups == Append(c.groups,
                            FindAllLinkedContacts(store, c.ids[Len(c.groups) + 1], c.env))
       IN calls' = [calls EXCEPT ![p] =
                       IF Len(groups) = Len(c.ids)
                       THEN AfterReadGroups(c, groups)
                       ELSE [c EXCEPT !.groups = groups]]
    /\ UNCHANGED <<store, now, prev, req, outcome, response, repeated, base, reply, listing>>

\* the pending createContact / updateContact resolves
WriteStep(p) ==
    /\ calls[p].pc = "write"
    /\ LET w == Head(calls[p].todo)
       IN /\ store' = Written(store, w)
          /\ calls' = [calls EXCEPT ![p] = AfterWrite(@, store, w)]
    /\ UNCHANGED <<now, prev, req, outcome, response, repeated, base, reply, listing>>

\* the pending store call rejects (db.all, db.run call back with err): the
\* await throws and identify throws with it
FailStep(p) ==
    /\ calls[p].pc \in {"find", "findLinked", "readGroup", "write"}
    /\ calls' = [calls EXCEPT ![p] = Threw(@, "SQLITE_ERROR")]
    /\ UNCHANGED <<store, now, prev, req, outcome, response, repeated, base, reply, listing>>

Step(p) == FindStep(p) \/ FindLinkedStep(p) \/ ReadGroupStep(p) \/ WriteStep(p)

\* requests served alone, then two requests served together
NextConc ==
    \/ \E r \in Requests : AllIdle /\ Identify(r.email, r.phoneNumber)
    \/ \E r1 \in Requests : \E r2 \in Requests : \E env \in PairEnvs :
          StartPair(r1, r2, env)
    \/ \E p \in Procs : Step(p)
    \/ Tick

ConcSpec == Init /\ [][NextConc]_vars

\* requests served one at a time by a store whose calls may fail
NextFault ==
    \/ \E r \in Requests : \E env \in Envs : Start(1, r, env)
    \/ Step(1)
    \/ FailStep(1)
    \/ Tick

FaultSpec == Init /\ [][NextFault]_vars

\* POST /api/v1/identify arrives while no request is being served: the
\* controller answers at once or calls the service
Receive(body, env) ==
    /\ outcome # "called"
    /\ req' = body
    /\ base' = store
    /\ LET v == Validated(body)
       IN IF v.pass
          THEN /\ calls' = [calls EXCEPT ![1] = StartedCall(v.email, v.phoneNumber, env)]
               /\ outcome' = "called"
               /\ reply' = NoReply
          ELSE /\ reply' = v.reply
               /\ outcome' = "rejected"
               /\ UNCHANGED calls
    /\ UNCHANGED <<store, now, prev, response, repeated, listing>>

\* the awaited contactService.identify settles and the controller answers
Respond ==
    /\ outcome = "called"
    /\ calls[1].pc = "done"
    /\ reply' = ReplyOf(calls[1])
    /\ outcome' = IF calls[1].status = "ok" THEN "returned" ELSE calls[1].error
    /\ calls' = [calls EXCEPT ![1] = IdleCall]
    /\ UNCHANGED <<store, now, prev, req, response, repeated, base, listing>>

\* the endpoint, one request at a time, on a store whose calls may fail
NextHttp ==
    \/ \E body \in Bodies : \E env \in Envs : Receive(body, env)
    \/ Step(1)
    \/ FailStep(1)
    \/ Respond
    \/ Tick

HttpSpec == Init /\ [][NextHttp]_vars

\* ---------------------------------------------- a database file found at startup
\* new sqlite3.Database(finalDbPath) opens the file that is there and
\* CREATE TABLE IF NOT EXISTS keeps its rows: the service may start on any
\* table the schema admits (linkPrecedence is checked, the foreign key on
\* linkedId is not enforced, deletedAt may be set).
FoundIds == {1, 2}

FoundRows(i, t) ==
    [id : {i},
     phoneNumber : Phones \cup {NULL},
     email : Emails \cup {NULL},
     linkedId : {NULL_ID} \cup FoundIds,
     linkPrecedence : {"primary", "secondary"},
     createdAt : 0..t,
     deletedAt : {NULL, "deleted"}]

\* the tables of n rows with ids 1..n created up to second t
FoundTables(t) ==
    UNION {{s \in [1..n -> UNION {FoundRows(i, t) : i \in FoundIds}] :
               \A i \in 1..n : s[i].id = i} :
           n \in {0} \cup FoundIds}

InitFound ==
    /\ now \in 0..MaxTime
    /\ store \in FoundTables(now)
    /\ prev = <<>>
    /\ req = [email |-> NULL, phoneNumber |-> NULL]
    /\ outcome = "init"
    /\ response = [status |-> "none", contact |-> NoContact]
    /\ repeated = FALSE
    /\ calls = [p \in Procs |-> IdleCall]
    /\ base = <<>>
    /\ reply = NoReply
    /\ listing = NoListing

\* one request served on the table found
NextFound ==
    \E r \in Requests : outcome = "init" /\ IdentifyObserved(r.email, r.phoneNumber)

FoundSpec == InitFound /\ [][NextFound]_vars

\* ------------------------------------------------- the listing endpoint
\* the last page number requested
MaxPage == 4

LimitParams == {AbsentParam, TextParam} \cup {IntParam(n) : n \in {-1, 0, 1, 2, 3, 100, 101}}
PageParams == {AbsentParam, TextParam} \cup {IntParam(n) : n \in -1..MaxPage}

\* the rows of a table to list: the listing returns every column and
\* decides on deletedAt and createdAt alone
ListIds == {1, 2, 3}

ListedRows(i, t) ==
    [id : {i},
     phoneNumber : {NULL},
     email : {"e1"},
     linkedId : {NULL_ID},
     linkPrecedence : {"primary"},
     createdAt : 0..t,
     deletedAt : {NULL, "deleted"}]

ListedTables(t) ==
    UNION {{s \in [1..n -> UNION {ListedRows(i, t) : i \in ListIds}] :
               \A i \in 1..n : s[i].id = i} :
           n \in {0} \cup ListIds}

InitListed ==
    /\ now \in 0..MaxTime
    /\ store \in ListedTables(now)
    /\ prev = <<>>
    /\ req = [email |-> NULL, phoneNumber |-> NULL]
    /\ outcome = "init"
    /\ response = [status |-> "none", contact |-> NoContact]
    /\ repeated = FALSE
    /\ calls = [p \in Procs |-> IdleCall]
    /\ base = <<>>
    /\ reply = NoReply
    /\ listing = NoListing

\* GET /api/v1/contacts?limit=&page= (the listing changes nothing: one
\* request on each table shows all it can do)
GetAllContacts(query, env) ==
    /\ listing = NoListing
    /\ listing' = ListingReply(store, query, env)
    /\ UNCHANGED <<store, now, prev, req, outcome, response, repeated, calls, base, reply>>

NextList ==
    \E query \in [limit : LimitParams, page : PageParams] : \E env \in Envs :
        GetAllContacts(query, env)

ListSpec == InitListed /\ [][NextList]_vars

TypeOK ==
    /\ now \in 0..MaxTime
    /\ \A i \in 1..Len(store) : store[i].id = i

\* ------------------------------------------------------------ properties
\* the governing primary of row i of table s: the row itself if primary,
\* else the row its linkedId names
Gov(s, i) == IF s[i].linkPrecedence = "primary" THEN i ELSE s[i].linkedId

Called == outcome # "init"

\* no row of s carries the request's email or its phone
NoStoredMatch(s, r) ==
    \A i \in 1..Len(s) :
        /\ ~(r.email # NULL /\ s[i].email = r.email)
        /\ ~(r.phoneNumber # NULL /\ s[i].phoneNumber = r.phoneNumber)

\* s2 is s1 with exactly one row appended, the rows of s1 untouched
OneRowAdded(s1, s2) ==
    /\ Len(s2) = Len(s1) + 1
    /\ SubSeq(s2, 1, Len(s1)) = s1

\* C1: a call whose request matches no stored row creates exactly one row,
\* primary with linkedId unset and the request's email and phone, changes no
\* existing row, and returns that row's id with no secondary ids.
C1_NoMatchCreatesPrimary ==
    (Called /\ NoStoredMatch(prev, req)) =>
        /\ OneRowAdded(prev, store)
        /\ LET n == store[Len(store)]
           IN /\ n.linkPrecedence = "primary"
              /\ n.linkedId = NULL_ID
              /\ n.email = req.email
              /\ n.phoneNumber = req.phoneNumber
              /\ n.id = Len(store)
        /\ response.status = "ok"
        /\ response.contact.primaryContactId = Len(store)
        /\ response.contact.secondaryContactIds = <<>>

C1_Witness ==
    /\ Called
    /\ NoStoredMatch(prev, req)
    /\ Len(prev) >= 2
    /\ req.email # NULL /\ req.phoneNumber = NULL

\* the governing primaries of the rows of s that carry email e / phone p
GovOfEmail(s, e) == {Gov(s, i) : i \in {j \in 1..Len(s) : e # NULL /\ s[j].email = e}}
GovOfPhone(s, p) == {Gov(s, i) : i \in {j \in 1..Len(s) : p # NULL /\ s[j].phoneNumber = p}}

\* the last call bridged two separate identities of prev: its email belongs
\* to one, its phone to the other, and primary a was created strictly before
\* primary b
Bridged(a, b) ==
    /\ Called
    /\ a \in 1..Len(prev) /\ b \in 1..Len(prev) /\ a # b
    /\ prev[a].linkPrecedence = "primary" /\ prev[b].linkPrecedence = "primary"
    /\ prev[a].createdAt < prev[b].createdAt
    /\ \/ GovOfEmail(prev, req.email) = {a} /\ GovOfPhone(prev, req.phoneNumber) = {b}
       \/ GovOfEmail(prev, req.email) = {b} /\ GovOfPhone(prev, req.phoneNumber) = {a}

\* C2: after a call that bridges identities A (older primary a) and B
\* (primary b), a is still primary, b is secondary with linkedId a, every
\* former secondary of b has linkedId a, and all rows of both identities are
\* governed by a.
C2_MergeCorrect ==
    \A a \in 1..Len(prev) : \A b \in 1..Len(prev) :
        Bridged(a, b) =>
            /\ Len(store) >= Len(prev)
            /\ store[a].linkPrecedence = "primary"
            /\ store[b].linkPrecedence = "secondary"
            /\ store[b].linkedId = a
            /\ \A i \in 1..Len(prev) :
                  (prev[i].linkPrecedence = "secondary" /\ prev[i].linkedId = b)
                      => (store[i].linkPrecedence = "secondary" /\ store[i].linkedId = a)
            /\ \A i \in 1..Len(prev) :
                  Gov(prev, i) \in {a, b} => Gov(store, i) = a
            /\ response.status = "ok"
            /\ response.contact.primaryContactId = a

C2_Witness ==
    \E a \in 1..Len(prev) : \E b \in 1..Len(prev) :
        /\ Bridged(a, b)
        /\ \E i \in 1..Len(prev) :
              prev[i].linkPrecedence = "secondary" /\ prev[i].linkedId = b

\* C3: every secondary row's linkedId names a stored primary row.
C3_SecondaryLinksToPrimary ==
    \A i \in 1..Len(store) :
        store[i].linkPrecedence = "secondary" =>
            /\ store[i].linkedId \in 1..Len(store)
            /\ store[store[i].linkedId].linkPrecedence = "primary"

C3_Witness ==
    /\ outcome = "merge"
    /\ \E i \in 1..Len(prev) :
          /\ prev[i].linkPrecedence = "secondary"
          /\ store[i].linkedId # prev[i].linkedId

SharesValue(r1, r2) ==
    \/ r1.email # NULL /\ r1.email = r2.email
    \/ r1.phoneNumber # NULL /\ r1.phoneNumber = r2.phoneNumber

\* C4: every row is governed by a stored primary row, and two rows that
\* share a non-null email or a non-null phone have the same governing primary.
C4_SharedValueSameIdentity ==
    /\ \A i \in 1..Len(store) :
          /\ Gov(store, i) \in 1..Len(store)
          /\ store[Gov(store, i)].linkPrecedence = "primary"
    /\ \A i \in 1..Len(store) : \A j \in 1..Len(store) :
          SharesValue(store[i], store[j]) => Gov(store, i) = Gov(store, j)

C4_Witness ==
    /\ outcome = "merge"
    /\ \E i \in 1..Len(store) : \E j \in 1..Len(store) :
          /\ i # j
          /\ SharesValue(store[i], store[j])
          /\ i <= Len(prev)
          /\ Gov(store, i) # Gov(prev, i)

\* C5: a call that repeats the request of the call before it creates no row
\* and changes no row.
C5_Idempotent ==
    repeated => (store = prev /\ response.status = "ok")

C5_Witness ==
    /\ repeated
    /\ Len(store) >= 3
    /\ req.email # NULL /\ req.phoneNumber # NULL

\* the rows of s governed by primary g
Members(s, g) == {i \in 1..Len(s) : Gov(s, i) = g}

\* the governing primaries of the rows of s the request r matches
GovOfRequest(s, r) == GovOfEmail(s, r.email) \cup GovOfPhone(s, r.phoneNumber)

\* the request r supplies an email or a phone that no row of s among ms has
SuppliesNewValue(s, ms, r) ==
    \/ r.email # NULL /\ \A m \in ms : s[m].email # r.email
    \/ r.phoneNumber # NULL /\ \A m \in ms : s[m].phoneNumber # r.phoneNumber

\* C6: a call whose request matches exactly one identity g appends exactly
\* one secondary row (linkedId g, the request's email and phone) when the
\* request supplies a value no member of g has, and leaves the table as it
\* was when every supplied value already occurs in a member.
C6_NewInformation ==
    \A g \in 1..Len(prev) :
        (Called /\ GovOfRequest(prev, req) = {g}) =>
            IF SuppliesNewValue(prev, Members(prev, g), req)
            THEN /\ OneRowAdded(prev, store)
                 /\ LET n == store[Len(store)]
                    IN /\ n.linkPrecedence = "secondary"
                       /\ n.linkedId = g
                       /\ n.email = req.email
                       /\ n.phoneNumber = req.phoneNumber
            ELSE store = prev

\* a call that attached a secondary to an identity that already had one,
\* and the tables show a call with nothing new as well
C6_Witness ==
    /\ Called
    /\ \E g \in 1..Len(prev) :
          /\ GovOfRequest(prev, req) = {g}
          /\ SuppliesNewValue(prev, Members(prev, g), req)
          /\ Cardinality(Members(prev, g)) >= 2
          /\ Len(store) = Len(prev) + 1

\* strictly increasing positions of q hold distinct values
NoDuplicates(q) == \A i \in 1..Len(q) : \A j \in 1..Len(q) : i # j => q[i] # q[j]

\* the contact of array w with id i (ids are distinct in w)
ById(w, i) == w[CHOOSE k \in 1..Len(w) : w[k].id = i]

\* createdAt of the first-created secondary of w carrying email v / phone v
FirstEmailCarrier(w, v) ==
    LET ts == {w[k].createdAt : k \in {j \in 1..Len(w) :
                   w[j].linkPrecedence = "secondary" /\ w[j].email = v}}
    IN CHOOSE x \in ts : \A y \in ts : x <= y

FirstPhoneCarrier(w, v) ==
    LET ts == {w[k].createdAt : k \in {j \in 1..Len(w) :
                   w[j].linkPrecedence = "secondary" /\ w[j].phoneNumber = v}}
    IN CHOOSE x \in ts : \A y \in ts : x <= y

\* view c is ordered as C7 says, w being the contacts it was assembled from
ViewOrdered(c, w) ==
    LET p == ById(w, c.primaryContactId)
        e0 == IF p.email # NULL THEN 2 ELSE 1
        p0 == IF p.phoneNumber # NULL THEN 2 ELSE 1
    IN /\ p.linkPrecedence = "primary"
       /\ p.email # NULL => (Len(c.emails) >= 1 /\ c.emails[1] = p.email)
       /\ p.phoneNumber # NULL => (Len(c.phoneNumbers) >= 1 /\ c.phoneNumbers[1] = p.phoneNumber)
       /\ NoDuplicates(c.emails)
       /\ NoDuplicates(c.phoneNumbers)
       /\ \A i \in e0..Len(c.emails) : \A j \in e0..Len(c.emails) :
             i < j => FirstEmailCarrier(w, c.emails[i]) <= FirstEmailCarrier(w, c.emails[j])
       /\ \A i \in p0..Len(c.phoneNumbers) : \A j \in p0..Len(c.phoneNumbers) :
             i < j => FirstPhoneCarrier(w, c.phoneNumbers[i])
                          <= FirstPhoneCarrier(w, c.phoneNumbers[j])
       /\ NoDuplicates(c.secondaryContactIds)
       /\ \A i \in 1..Len(c.secondaryContactIds) :
             ById(w, c.secondaryContactIds[i]).linkPrecedence = "secondary"
       /\ \A i \in 1..Len(c.secondaryContactIds) : \A j \in 1..Len(c.secondaryContactIds) :
             i < j => ById(w, c.secondaryContactIds[i]).createdAt
                          <= ById(w, c.secondaryContactIds[j]).createdAt

C8_PrimaryIsEarliest ==
    \A i \in 1..Len(store) :
        (store[i].linkPrecedence = "secondary" /\ store[i].linkedId \in 1..Len(store)) =>
            store[store[i].linkedId].createdAt <= store[i].createdAt

\* a merge of two primaries created in different seconds has happened
C8_Witness ==
    \E a \in 1..Len(prev) : \E b \in 1..Len(prev) :
        /\ Bridged(a, b)
        /\ store[b].linkPrecedence = "secondary"

\* the primaries a merge call on table s with request r brings together
MergedPrimaries(s, r) == GovOfRequest(s, r)

\* the earliest createdAt among rows ids of s
Earliest(s, ids) == CHOOSE x \in {s[i].createdAt : i \in ids} :
                        \A i \in ids : x <= s[i].createdAt

\* the last call merged primaries of which at least two share the earliest
\* createdAt
TiedMerge ==
    /\ Called
    /\ Cardinality(MergedPrimaries(prev, req)) >= 2
    /\ \A g \in MergedPrimaries(prev, req) :
          g \in 1..Len(prev) /\ prev[g].linkPrecedence = "primary"
    /\ Cardinality({g \in MergedPrimaries(prev, req) :
          prev[g].createdAt = Earliest(prev, MergedPrimaries(prev, req))}) >= 2

\* the smallest id among the merged primaries with the earliest createdAt
SmallestEarliest ==
    LET tied == {g \in MergedPrimaries(prev, req) :
                    prev[g].createdAt = Earliest(prev, MergedPrimaries(prev, req))}
    IN CHOOSE g \in tied : \A h \in tied : g <= h

\* the rows of s the request r matches
Matched(s, r) ==
    {i \in 1..Len(s) : \/ r.email # NULL /\ s[i].email = r.email
                       \/ r.phoneNumber # NULL /\ s[i].phoneNumber = r.phoneNumber}

\* exactly one of the merged primaries is itself matched by the request (the
\* others are reached through their secondaries), so that the order of the
\* lookup's rows has no say in the outcome
OnePrimaryMatched ==
    Cardinality({i \in Matched(prev, req) : prev[i].linkPrecedence = "primary"}) = 1

\* C9: in a merge whose earliest primaries share their createdAt, the
\* surviving primary is the one with the smallest id, whichever of the
\* candidates were primaries or secondaries (stated for the merges in which
\* the order of the lookup's rows cannot matter).
C9_TieBrokenBySmallestId ==
    (TiedMerge /\ OnePrimaryMatched) =>
        /\ store[SmallestEarliest].linkPrecedence = "primary"
        /\ response.contact.primaryContactId = SmallestEarliest

\* the requests that supply one field only
SingleFieldRequests == {r \in Requests : r.email = NULL \/ r.phoneNumber = NULL}

\* what the single-field requests naming a stored value return from table
\* s under environment env, each with the identity its request names
SingleFieldOutcomes(s, env) ==
    UNION {{[g |-> GovOfRequest(s, q), res |-> r] :
               r \in IdentifyResults(s, q.email, q.phoneNumber, env)} :
           q \in {x \in SingleFieldRequests : GovOfRequest(s, x) # {}}}

\* C10: from any reachable table, a call that supplies a single field whose
\* value already occurs in the table leaves the table as it was and returns
\* the view of the identity the value belongs to, the same view whichever
\* of the identity's emails or phones is supplied.
C10_SingleFieldLookup ==
    \A env \in Envs :
        LET outs == SingleFieldOutcomes(store, env)
        IN \A o1 \in outs :
              /\ o1.res.store = store
              /\ o1.res.status = "ok"
              /\ o1.res.contact.primaryContactId \in o1.g
              /\ \A o2 \in outs : o1.g = o2.g => o1.res.contact = o2.res.contact

\* an identity of three rows that two of its emails and its phone all name
C10_Witness ==
    \E env \in Envs : \E q1 \in SingleFieldRequests : \E q2 \in SingleFieldRequests :
        /\ q1.email # NULL /\ q2.phoneNumber # NULL
        /\ GovOfRequest(store, q1) # {}
        /\ GovOfRequest(store, q1) = GovOfRequest(store, q2)
        /\ Matched(store, q1) # Matched(store, q2)
        /\ \E r1 \in IdentifyResults(store, q1.email, q1.phoneNumber, env) :
              /\ r1.status = "ok"
              /\ Len(r1.contact.secondaryContactIds) >= 2
              /\ Len(r1.contact.emails) >= 2

\* a row of s carries exactly the request's email and phone
ExactPairStored(s, r) ==
    \E i \in 1..Len(s) : s[i].email = r.email /\ s[i].phoneNumber = r.phoneNumber

\* the last call appended one row, a secondary
SecondaryCreated ==
    /\ OneRowAdded(prev, store)
    /\ store[Len(store)].linkPrecedence = "secondary"

Overlapping ==
    \/ calls[1].email # NULL /\ calls[1].email = calls[2].email
    \/ calls[1].phoneNumber # NULL /\ calls[1].phoneNumber = calls[2].phoneNumber

\* the rows of s without the clock reading they were created at
Columns(s) ==
    [i \in 1..Len(s) |->
        [id |-> s[i].id, email |-> s[i].email, phoneNumber |-> s[i].phoneNumber,
         linkedId |-> s[i].linkedId, linkPrecedence |-> s[i].linkPrecedence]]

\* the tables that serving request a alone and then request b alone can
\* leave, starting from table s
SerialStores(s, a, b) ==
    UNION {UNION {{r2.store : r2 \in IdentifyResults(r1.store, b.email, b.phoneNumber, e2)} :
                     r1 \in IdentifyResults(s, a.email, a.phoneNumber, e1)} :
              <<e1, e2>> \in Envs \X Envs}

\* C12: once two calls sharing an email or a phone, served together, have
\* both finished, the table is one that serving them one after the other, in
\* one order or the other, leaves (rows compared without their createdAt).
C12_Serializable ==
    (AllDone /\ Overlapping) =>
        Columns(store) \in
            {Columns(x) : x \in SerialStores(base, calls[1], calls[2])
                                   \cup SerialStores(base, calls[2], calls[1])}

\* C13: a call that ends in an error, because one of its store calls failed
\* or the view assembly raised, leaves the table exactly as it was when the
\* call began.
C13_AtomicFailure ==
    \A p \in Procs :
        (calls[p].pc = "done" /\ calls[p].status = "error") => store = base

\* the live rows of s the request r matches
LiveMatched(s, r) == {i \in Matched(s, r) : s[i].deletedAt = NULL}

\* every candidate of the last call was a secondary with linkedId unset
OrphansOnly ==
    /\ Called
    /\ LiveMatched(prev, req) # {}
    /\ \A i \in LiveMatched(prev, req) :
          prev[i].linkPrecedence = "secondary" /\ prev[i].linkedId = NULL_ID

\* C14: a call whose candidates are all secondaries with linkedId unset
\* throws, writes nothing and returns no view.
C14_NoGoverningPrimaryFails ==
    OrphansOnly =>
        /\ store = prev
        /\ response.status = "error"
        /\ response.contact = NoContact
        /\ outcome = "none"

\* two orphan secondaries matched, one by the email and one by the phone,
\* the request bringing a pair no row has
C14_Witness ==
    /\ OrphansOnly
    /\ Cardinality(LiveMatched(prev, req)) = 2
    /\ req.email # NULL /\ req.phoneNumber # NULL
    /\ ~ExactPairStored(prev, req)

\* C15: a body that supplies neither an email nor a phoneNumber is answered
\* with status 400 without ContactService.identify being called and with the
\* table left as it was.
C15_MissingFieldsRejected ==
    (outcome # "init" /\ Falsy(req.email) /\ Falsy(req.phoneNumber)) =>
        /\ outcome = "rejected"
        /\ reply.status = 400
        /\ reply.contact = NoContact
        /\ calls[1].pc = "idle"
        /\ store = base

\* an empty email and no phone, sent to a service that holds contacts
C15_Witness ==
    /\ outcome = "rejected"
    /\ req.email = EMPTY /\ req.phoneNumber = ABSENT
    /\ Len(store) >= 2

\* the errors ContactService.identify ends with
ServiceErrors ==
    {"No primary contacts found", "No primary contact found", "TypeError", "SQLITE_ERROR"}

\* C16: when ContactService.identify throws, whatever the error, the endpoint
\* answers with status 500 and 'Internal server error', and the answer carries
\* no contact.
C16_FailureIsOpaque ==
    outcome \in ServiceErrors =>
        reply = [status |-> 500, error |-> "Internal server error",
                 contact |-> NoContact]

\* the view assembly found no primary among the contacts of the identity
C16_Witness ==
    /\ outcome = "No primary contact found"
    /\ reply.status = 500
    /\ Len(store) >= 3

\* the ids of the rows of s that are not excluded
LiveIds(s) == {i \in 1..Len(s) : s[i].deletedAt = NULL}

\* the enumerations of the non-excluded rows of s by descending createdAt
DescendingOrders(s) ==
    {o \in SeqToSetOrderings(LiveIds(s)) :
        \A i \in 1..Len(o) : \A j \in 1..Len(o) :
            i < j => s[o[i]].createdAt >= s[o[j]].createdAt}

\* the least k with k * limit >= n
LeastPages(n, limit) ==
    CHOOSE k \in 0..n : k * limit >= n /\ \A j \in 0..n : j * limit >= n => k <= j

\* positions (page-1)*limit .. page*limit-1 (counted from 0) of o
PageOf(o, page, limit) ==
    LET first == (page - 1) * limit + 1
        last == IF page * limit < Len(o) THEN page * limit ELSE Len(o)
    IN IF first > last THEN <<>> ELSE SubSeq(o, first, last)

\* contact c is row i of s, read back
IsRow(c, s, i) == [c EXCEPT !.createdAt = s[i].createdAt] = s[i]

\* C17: a listing request with limit in 1..100 and page >= 1 is answered
\* with totalContacts = N, the number of non-excluded rows, totalPages the
\* ceiling of N / limit, hasPrevious = (page > 1), hasNext = (page <
\* totalPages) and the rows at positions (page-1)*limit .. page*limit-1 of a
\* createdAt-descending enumeration of the non-excluded rows.
C17_Pagination ==
    LET q == listing.query
        limit == q.limit.n
        page == q.page.n
        n == Cardinality(LiveIds(store))
        pg == listing.pagination
    IN (q.limit.kind = "int" /\ limit \in 1..MaxLimit /\ q.page.kind = "int" /\ page >= 1) =>
          /\ listing.status = 200
          /\ pg.limit = limit /\ pg.currentPage = page
          /\ pg.totalContacts = n
          /\ pg.totalPages = LeastPages(n, limit)
          /\ pg.hasPrevious = (page > 1)
          /\ pg.hasNext = (page < pg.totalPages)
          /\ \E o \in DescendingOrders(store) :
                /\ Len(listing.data) = Len(PageOf(o, page, limit))
                /\ \A k \in 1..Len(listing.data) :
                      IsRow(listing.data[k], store, PageOf(o, page, limit)[k])

\* the second page of one row each, of a table of three rows, one excluded
C17_Witness ==
    /\ listing.status = 200
    /\ listing.pagination.limit = 1
    /\ listing.pagination.currentPage = 2
    /\ listing.pagination.totalContacts = 2
    /\ Len(listing.data) = 1
    /\ Len(store) = 3
    /\ store[1].createdAt # store[3].createdAt

\* the last request's email occurs in identity a only and its phone in
\* identity b only, a and b being different identities
BridgesTwo(a, b) ==
    /\ Called
    /\ a # b
    /\ GovOfEmail(prev, req.email) = {a}
    /\ GovOfPhone(prev, req.phoneNumber) = {b}

\* C18: a call whose email occurs in one identity and whose phone occurs in
\* another merges the two (every row of either is governed by one primary,
\* a or b, afterwards) and creates no row.
C18_MergeCreatesNoRecord ==
    \A a \in 1..Len(prev) : \A b \in 1..Len(prev) :
        BridgesTwo(a, b) =>
            /\ outcome = "merge"
            /\ Len(store) = Len(prev)
            /\ \E g \in {a, b} :
                  /\ store[g].linkPrecedence = "primary"
                  /\ \A i \in 1..Len(prev) : Gov(prev, i) \in {a, b} => Gov(store, i) = g
            /\ response.status = "ok"

\* the pair of the request is stored in no row, and one of the identities
\* has a secondary
C18_Witness ==
    \E a \in 1..Len(prev) : \E b \in 1..Len(prev) :
        /\ BridgesTwo(a, b)
        /\ ~ExactPairStored(prev, req)
        /\ Len(prev) >= 3
        /\ store # prev

\* row r2 is row r1 after one of the two changes a merge makes, or untouched
RowFramed(r1, r2) ==
    /\ r2.id = r1.id /\ r2.email = r1.email /\ r2.phoneNumber = r1.phoneNumber
    /\ r2.createdAt = r1.createdAt /\ r2.deletedAt = r1.deletedAt
    /\ \/ r2 = r1
       \/ /\ r1.linkPrecedence = "primary" /\ r2.linkPrecedence = "secondary"
          /\ r2.linkedId # NULL_ID
       \/ /\ r1.linkPrecedence = "secondary" /\ r2.linkPrecedence = "secondary"
          /\ r2.linkedId # NULL_ID

\* C19: every step keeps every row, with its id, email, phone and createdAt,
\* and changes a row only by demoting it from primary to secondary with its
\* linkedId set, or by repointing the linkedId of a secondary; no secondary
\* becomes primary.
C19_Frame ==
    [][/\ Len(store') >= Len(store)
       /\ \A i \in 1..Len(store) : RowFramed(store[i], store'[i])]_vars

\* a merge has demoted one row and repointed another
C19_Witness ==
    /\ outcome = "merge"
    /\ \E i \in 1..Len(prev) :
          prev[i].linkPrecedence = "primary" /\ store[i].linkPrecedence = "secondary"
    /\ \E i \in 1..Len(prev) :
          /\ prev[i].linkPrecedence = "secondary"
          /\ store[i].linkedId # prev[i].linkedId

\* the identities the last call merged: those its request reaches, when it
\* reaches more than one
MergedByCall ==
    IF Cardinality(GovOfRequest(prev, req)) >= 2 THEN GovOfRequest(prev, req) ELSE {}

\* C20: a call whose request reaches no identity or one identity changes no
\* existing row, and a call that merges changes no row of an identity it
\* does not merge: the primary of an identity stays the same row until a
\* call merges the identity with another.
C20_OnlyMergeModifies ==
    Called =>
        /\ Len(store) >= Len(prev)
        /\ Cardinality(GovOfRequest(prev, req)) <= 1 => outcome \in {"new", "single"}
        /\ \A i \in 1..Len(prev) :
              Gov(prev, i) \notin MergedByCall =>
                  /\ store[i] = prev[i]
                  /\ Gov(store, i) = Gov(prev, i)
                  /\ store[Gov(store, i)].linkPrecedence = "primary"

\* a call attached a secondary to one of two identities
C20_Witness ==
    /\ Called
    /\ Cardinality(GovOfRequest(prev, req)) = 1
    /\ Len(store) = Len(prev) + 1
    /\ Cardinality({i \in 1..Len(prev) : prev[i].linkPrecedence = "primary"}) = 2

\* the two calls in flight carry the same observation
SameObservation ==
    /\ calls[1].email = calls[2].email
    /\ calls[1].phoneNumber = calls[2].phoneNumber

\* the rows written since the two calls started
RowsSince(s0, s) == {i \in 1..Len(s) : i > Len(s0)}

\* C21: once two calls carrying the same observation, served together on a
\* table in which no row matches it, have both finished, exactly one new
\* primary row has been written, and no two primaries share an email or a
\* phone.
C21_OnePrimaryForOneObservation ==
    (/\ AllDone
     /\ SameObservation
     /\ NoStoredMatch(base, [email |-> calls[1].email, phoneNumber |-> calls[1].phoneNumber]))
    => /\ Cardinality({i \in RowsSince(base, store) :
                          store[i].linkPrecedence = "primary"}) = 1
       /\ \A i \in 1..Len(store) : \A j \in 1..Len(store) :
             (/\ i # j
              /\ store[i].linkPrecedence = "primary"
              /\ store[j].linkPrecedence = "primary")
             => ~SharesValue(store[i], store[j])

\* C22: once two calls served together have both finished, whatever the
\* order in which their store calls resolved, the linkedId of every secondary
\* row names a stored primary row.
C22_LinksSurviveInterleaving ==
    AllDone =>
        \A i \in 1..Len(store) :
            store[i].linkPrecedence = "secondary" =>
                /\ store[i].linkedId \in 1..Len(store)
                /\ store[store[i].linkedId].linkPrecedence = "primary"

\* the page size / page number a answered listing worked with is the one
\* the query names, the default standing in for an absent parameter only
UsesParam(param, used, default) ==
    \/ param.kind = "absent" /\ used = default
    \/ param.kind = "int" /\ used = param.n

\* C23: a listing whose limit is an integer outside 1..100 (0 and negative
\* values included) is answered 400 'Limit must be between 1 and 100', one
\* whose page is an integer below 1 is answered 400, and a listing answered
\* 200 used the default limit 50 and the default page 1 only for a
\* parameter that was absent.
C23_ListingValidation ==
    listing.status # 0 =>
        LET q == listing.query
        IN /\ (q.limit.kind = "int" /\ q.limit.n \notin 1..MaxLimit) =>
                 /\ listing.status = 400
                 /\ listing.error = "Limit must be between 1 and 100"
           /\ (q.page.kind = "int" /\ q.page.n < 1) => listing.status = 400
           /\ listing.status = 200 =>
                 /\ UsesParam(q.limit, listing.pagination.limit, DefaultLimit)
                 /\ UsesParam(q.page, listing.pagination.currentPage, DefaultPage)

\* the non-null emails / phones of the rows ms of table s
EmailsOf(s, ms) == {s[i].email : i \in {j \in ms : s[j].email # NULL}}
PhonesOf(s, ms) == {s[i].phoneNumber : i \in {j \in ms : s[j].phoneNumber # NULL}}

\* view c describes the identity of table s whose primary is row g
Describes(c, s, g) ==
    /\ c.primaryContactId = g
    /\ s[g].linkPrecedence = "primary"
    /\ NoDuplicates(c.secondaryContactIds)
    /\ Range(c.secondaryContactIds) = Members(s, g) \ {g}
    /\ Range(c.emails) = EmailsOf(s, Members(s, g))
    /\ Range(c.phoneNumbers) = PhonesOf(s, Members(s, g))

\* C24: the view a call returns describes the identity of the request as
\* the table stores it after the call: primaryContactId is the id of its
\* primary row, secondaryContactIds holds the id of each of its secondary
\* rows once and nothing else, emails and phoneNumbers hold exactly the
\* non-null emails and phones of its rows.
C24_ViewDescribesStoredIdentity ==
    Called =>
        /\ response.status = "ok"
        /\ \E g \in 1..Len(store) :
              /\ GovOfRequest(store, req) = {g}
              /\ Describes(response.contact, store, g)

\* the view of an identity of three rows, two of them merged into it
C24_Witness ==
    /\ outcome = "merge"
    /\ response.status = "ok"
    /\ Len(response.contact.secondaryContactIds) = 2
    /\ Len(response.contact.emails) = 2
    /\ Len(response.contact.phoneNumbers) = 1

\* C25: the view a call returns contains the request: its email, when it
\* has one, is among emails and its phone, when it has one, is among
\* phoneNumbers, whether the call created a primary, served one identity or
\* merged two.
C25_ViewContainsObservation ==
    (Called /\ response.status = "ok") =>
        /\ outcome \in {"new", "single", "merge"}
        /\ req.email # NULL => req.email \in Range(response.contact.emails)
        /\ req.phoneNumber # NULL => req.phoneNumber \in Range(response.contact.phoneNumbers)

\* a request of two values, one of them unseen, answered with the view of
\* the identity it was attached to
C25_Witness ==
    /\ outcome = "single"
    /\ response.status = "ok"
    /\ req.email # NULL /\ req.phoneNumber # NULL
    /\ Len(store) = Len(prev) + 1
    /\ Len(response.contact.secondaryContactIds) >= 1
    /\ req.phoneNumber \in Range(response.contact.phoneNumbers)
    /\ \A i \in 1..Len(prev) : prev[i].phoneNumber # req.phoneNumber

\* the arrays of primary ids identify can compute on table s, over every
\* request, host and row order of the lookup
ComputedPrimaryIds(s) ==
    UNION {UNION {{AllPrimaryIds(existingContacts) :
                      existingContacts \in FindContactsByEmailOrPhone(
                                               s, r.email, r.phoneNumber, env)} :
                     env \in Envs} :
              r \in Requests}

\* C26: in every table calls served one after the other can leave, the
\* primary ids computed for any request number at most two, at most one
\* reached through the email and at most one through the phone, and a call
\* that merges merges exactly two identities.
C26_AtMostTwoGoverningIds ==
    /\ \A ids \in ComputedPrimaryIds(store) : Len(ids) <= 2
    /\ \A r \in Requests :
          /\ Cardinality(GovOfEmail(store, r.email)) <= 1
          /\ Cardinality(GovOfPhone(store, r.phoneNumber)) <= 1
    /\ outcome = "merge" => Cardinality(GovOfRequest(prev, req)) = 2

\* a merge on a table where one of the two identities has a secondary, and
\* a request still reaches two primary ids of the table it left
C26_Witness ==
    /\ outcome = "merge"
    /\ Cardinality(GovOfRequest(prev, req)) = 2
    /\ Len(prev) >= 3
    /\ \E ids \in ComputedPrimaryIds(store) : Len(ids) = 2

====
